---- MODULE Spec2Model ----
(***************************************************************************)
(* The two native entry points of ipa_multipoint_jni/src/lib.rs:           *)
(*   commit            : Object[] of byte[]            -> byte[128]        *)
(*   update_commitment : {Integer, byte[], byte[], byte[]} -> byte[128]    *)
(*                                                                         *)
(* Scaling.  A byte buffer is a sequence of WORDS, one word per 32-byte    *)
(* little-endian chunk (one field element: Fr::read and Fq::read consume   *)
(* exactly one chunk, EdwardsProjective::read four).  A buffer shorter     *)
(* than the chunks a read needs is a shorter sequence.  The Bandersnatch   *)
(* fields are scaled to Fq = GF(29), Fr = GF(7) on the twisted Edwards     *)
(* curve  -5 x^2 + y^2 = 1 + 10 x^2 y^2  (28 points, cofactor 4, complete  *)
(* addition law), and the domain of 256 generators to DomainSize.          *)
(* Points are kept in the extended coordinates (x, y, t, z) the library    *)
(* computes with, because those four coordinates are what is written to    *)
(* the 128 output bytes.                                                   *)
(*                                                                         *)
(* lib.rs calls into ark_ff / ark_ec 0.3 (FromBytes, ToBytes, the twisted  *)
(* Edwards group law), bandersnatch and ipa_multipoint.  The operators     *)
(* below follow those crates at the places lib.rs calls them: read takes   *)
(* the leading chunks and rejects values not below the modulus, write      *)
(* emits x, y, t, z unnormalised, add is the unified addition without a    *)
(* special case for the identity, mul is double-and-add, and               *)
(* commit_lagrange_poly zips the values with the generators.               *)
(***************************************************************************)
EXTENDS Integers, Sequences, FiniteSets, TLC

VARIABLES G, pc, input, hist, alive

vars == <<G, pc, input, hist, alive>>

-----------------------------------------------------------------------------
(* Scaled parameters *)

\* modulus of bandersnatch::Fq, the base field of the curve
FqModulus == 29
\* modulus of bandersnatch::Fr, the scalar field
FrModulus == 7
\* Bandersnatch is a x^2 + y^2 = 1 + d x^2 y^2 with a = -5
COEFF_A == FqModulus - 5
COEFF_D == 10
\* CRS::new(256, PEDERSEN_SEED) and vec![Fr::zero(); 256]
DomainSize == 3

Min(a, b) == IF a <= b THEN a ELSE b

-----------------------------------------------------------------------------
(* ark_ec twisted Edwards extended coordinates, as used through            *)
(* bandersnatch::EdwardsProjective                                         *)

Fq(n) == n % FqModulus

Point(x, y, t, z) == [x |-> x, y |-> y, t |-> t, z |-> z]

\* EdwardsProjective::zero() / default(): (0, 1, 0, 1)
Zero == Point(0, 1, 0, 1)

\* AddAssign: unified addition in E^e ("Twisted Edwards Curves Revisited" 3.1)
add(P, Q) ==
    LET A == Fq(P.x * Q.x)
        B == Fq(P.y * Q.y)
        C == Fq(COEFF_D * P.t * Q.t)
        D == Fq(P.z * Q.z)
        H == Fq(B + (FqModulus - Fq(COEFF_A * A)))
        E == Fq((P.x + P.y) * (Q.x + Q.y) + (FqModulus - A) + (FqModulus - B))
        F == Fq(D + (FqModulus - C))
        GG == Fq(D + C)
    IN  Point(Fq(E * F), Fq(GG * H), Fq(E * H), Fq(F * GG))

\* double_in_place: dbl-2008-hwcd
double(P) ==
    LET A == Fq(P.x * P.x)
        B == Fq(P.y * P.y)
        C == Fq(2 * P.z * P.z)
        D == Fq(COEFF_A * A)
        E == Fq((P.x + P.y) * (P.x + P.y) + (FqModulus - A) + (FqModulus - B))
        GG == Fq(D + B)
        F == Fq(GG + (FqModulus - C))
        H == Fq(D + (FqModulus - B))
    IN  Point(Fq(E * F), Fq(GG * H), Fq(E * H), Fq(F * GG))

\* double-and-add with the accumulator started at the point, not at zero
RECURSIVE mul_from_point(_, _)
mul_from_point(P, s) ==
    IF s <= 1 THEN P
    ELSE LET r == double(mul_from_point(P, s \div 2))
         IN  IF s % 2 = 1 THEN add(r, P) ELSE r

\* Group::mul: double-and-add over the bits of the scalar, most significant
\* first, leading zeros skipped; the scalar 0 gives zero() untouched
RECURSIVE mul(_, _)
mul(P, s) ==
    IF s = 0 THEN Zero
    ELSE LET r == double(mul(P, s \div 2))
         IN  IF s % 2 = 1 THEN add(r, P) ELSE r

\* PartialEq of the group: the same point, whatever the representative
SamePoint(P, Q) ==
    /\ Fq(P.x * Q.z) = Fq(Q.x * P.z)
    /\ Fq(P.y * Q.z) = Fq(Q.y * P.z)

\* the curve equation in extended coordinates; nothing in lib.rs checks it
OnCurve(P) ==
    /\ Fq(COEFF_A * P.x * P.x + P.y * P.y) = Fq(P.z * P.z + COEFF_D * P.t * P.t)
    /\ Fq(P.t * P.z) = Fq(P.x * P.y)
    /\ P.z # 0

-----------------------------------------------------------------------------
(* Byte codecs (ark_ff::bytes::{FromBytes, ToBytes}) *)

\* Fr::read(barray.as_ref()): takes the first 32-byte chunk of the buffer,
\* whatever follows it; Err when the buffer is shorter or the chunk is not
\* below the modulus
Fr_read(buf) ==
    IF Len(buf) >= 1 /\ buf[1] < FrModulus
    THEN [ok |-> TRUE, val |-> buf[1]]
    ELSE [ok |-> FALSE, val |-> 0]

\* one coordinate of EdwardsProjective::read
Fq_read(buf, k) == Len(buf) >= k /\ buf[k] < FqModulus

\* EdwardsProjective::read(barray.as_ref()): x, y, t, z read in turn and
\* handed to Self::new as they are
EdwardsProjective_read(buf) ==
    IF \A k \in 1..4 : Fq_read(buf, k)
    THEN [ok |-> TRUE, val |-> Point(buf[1], buf[2], buf[3], buf[4])]
    ELSE [ok |-> FALSE, val |-> Zero]

\* result.write(result_bytes.as_mut()): x, y, t, z of the representative
\* at hand fill the 128 bytes
write(P) == <<P.x, P.y, P.t, P.z>>

\* new - old in Fr
Fr_sub(new, old) == (new + (FrModulus - old)) % FrModulus

\* `as u16` applied to the Java int
AsU16(i) == i % (2 ^ 16)

-----------------------------------------------------------------------------
(* ipa_multipoint: LagrangeBasis and CRS as lib.rs uses them *)

\* LagrangeBasis::new(vec): wraps the values, any number of them
LagrangeBasis_new(vec) == vec

\* for (s, p) in scalars.zip(points) { res += p.mul(s) }, over the first n pairs
RECURSIVE multiscalar_mul(_, _, _)
multiscalar_mul(scalars, points, n) ==
    IF n = 0 THEN Zero
    ELSE add(multiscalar_mul(scalars, points, n - 1), mul(points[n], scalars[n]))

\* crs.commit_lagrange_poly(&poly): zip stops at the shorter of the two
commit_lagrange_poly(crs, poly) ==
    multiscalar_mul(poly, crs, Min(Len(poly), Len(crs)))

-----------------------------------------------------------------------------
(* Java values handed over JNI *)

JBytes(b) == [cls |-> "byte[]", value |-> 0, bytes |-> b]
JInteger(i) == [cls |-> "Integer", value |-> i, bytes |-> <<>>]

\* what a native call leaves behind.  kind "bytes": the byte[128] returned;
\* kind "exception": a pending Java exception and a null return;
\* kind "panic": a Rust panic inside the extern "system" function.
\* reads = how many elements of the argument array had been fetched
Returned(b, n) ==
    [kind |-> "bytes", bytes |-> b, class |-> "", detail |-> "", reads |-> n, how |-> ""]
Thrown(cls, msg) ==
    [kind |-> "exception", bytes |-> <<>>, class |-> cls, detail |-> msg, reads |-> 0,
     how |-> ""]
Panicked(msg, n) ==
    [kind |-> "panic", bytes |-> <<>>, class |-> "", detail |-> msg, reads |-> n,
     how |-> ""]

\* first element of the array whose Fr::read(..).unwrap() fails, 0 if none
RECURSIVE FirstBad(_, _)
FirstBad(arr, k) ==
    IF k > Len(arr) THEN 0
    ELSE IF ~Fr_read(arr[k].bytes).ok THEN k
    ELSE FirstBad(arr, k + 1)

\* body of Java_..._LibIpaMultipoint_commit
commit_result(arr, crs) ==
    LET bad == FirstBad(arr, 1) IN
    IF bad # 0 THEN Panicked("unwrap on Err", bad)
    ELSE LET vec == [k \in 1..Len(arr) |-> Fr_read(arr[k].bytes).val]
             poly == LagrangeBasis_new(vec)
             result == commit_lagrange_poly(crs, poly)
         IN  Returned(write(result), Len(arr))

\* the same with the store vec[index] = delta left out
update_point_no_store(index, old, new, old_commitment, crs) ==
    LET vec == [k \in 1..DomainSize |-> 0]
        poly == LagrangeBasis_new(vec)
        new_commitment == commit_lagrange_poly(crs, poly)
    IN  add(new_commitment, old_commitment)

\* lines 91-97: delta, the one-entry vector, its commitment, the sum
update_point(index, old, new, old_commitment, crs) ==
    LET delta == Fr_sub(new, old)
        vec == [k \in 1..DomainSize |-> IF k = index + 1 THEN delta ELSE 0]
        poly == LagrangeBasis_new(vec)
        new_commitment == commit_lagrange_poly(crs, poly)
    IN  add(new_commitment, old_commitment)

\* a slip that lets longer arrays through
bad_length_lt(len) == len < 4

\* the length test that opens update_commitment
bad_length(len) == len # 4

\* body of Java_..._LibIpaMultipoint_update_commitment
update_commitment_result(arr, crs) ==
    IF bad_length(Len(arr)) THEN Thrown("java/lang/IllegalArgumentException", "Invalid input length")
    ELSE IF arr[1].cls # "Integer" THEN Panicked("Failed to get field value", 1)
    ELSE LET index == AsU16(arr[1].value)
             old == Fr_read(arr[2].bytes)
             new == Fr_read(arr[3].bytes)
             old_commitment == EdwardsProjective_read(arr[4].bytes)
         IN  IF ~old.ok
                THEN Panicked("unwrap on Err", 2)
             ELSE IF ~new.ok
                THEN Panicked("unwrap on Err", 3)
             ELSE IF ~old_commitment.ok
                THEN Panicked("unwrap on Err", 4)
             ELSE IF index >= DomainSize
                THEN Panicked("index out of bounds", 4)
             ELSE Returned(write(update_point(index, old.val, new.val,
                                              old_commitment.val, crs)), 4)

-----------------------------------------------------------------------------
(* The generators.  CRS::new(256, PEDERSEN_SEED) derives them inside the   *)
(* library: distinct points of the prime-order subgroup, each with z = 1.  *)
(* Which points the seed yields is left open between two candidate lists.  *)

\* affine (x, y) of the six points of order FrModulus
SubgroupPoints ==
    << <<1, 3>>, <<13, 22>>, <<14, 19>>, <<15, 19>>, <<16, 22>>, <<28, 3>> >>

FromAffine(a) == Point(a[1], a[2], Fq(a[1] * a[2]), 1)

GeneratorSets ==
    { [k \in 1..DomainSize |-> FromAffine(SubgroupPoints[k])],
      [k \in 1..DomainSize |-> FromAffine(SubgroupPoints[Len(SubgroupPoints) + 1 - k])] }

\* let crs = CRS::new(256, PEDERSEN_SEED): the same list in every call
CRS_new == G

-----------------------------------------------------------------------------
(* The process: Java threads calling into the library *)

Threads == {1, 2}

\* A panic leaves an extern "system" function by unwinding into the JVM's
\* frames, which is undefined; the builds either abort in the Rust runtime
\* or take the JVM down with a fatal error.  Neither returns to the caller.
PanicOutcomes == {"abort", "fatal error in JVM"}

InFlight(t) == pc[t] \in {"commit", "update_commitment"}

Init ==
    /\ G \in GeneratorSets
    /\ pc = [t \in Threads |-> "idle"]
    /\ input = [t \in Threads |-> <<>>]
    /\ hist = [t \in Threads |-> <<>>]
    /\ alive = TRUE

\* the JVM enters a native method with its argument array
Invoke(t, fn, arr) ==
    /\ alive
    /\ pc[t] = "idle"
    /\ pc' = [pc EXCEPT ![t] = fn]
    /\ input' = [input EXCEPT ![t] = arr]
    /\ UNCHANGED <<G, hist, alive>>

\* return javaarray / return null with the exception pending
Complete(t, fn, r) ==
    /\ pc' = [pc EXCEPT ![t] = "idle"]
    /\ hist' = [hist EXCEPT ![t] = Append(@, [fn |-> fn, input |-> input[t], output |-> r])]
    /\ input' = [input EXCEPT ![t] = <<>>]
    /\ UNCHANGED <<G, alive>>

\* unwrap()/expect()/index panic: the process ends, and with it every call
\* other threads have in flight
Abort(t, fn, r) ==
    /\ alive' = FALSE
    /\ pc' = [u \in Threads |->
                IF u = t THEN "panicked"
                ELSE IF InFlight(u) THEN "killed" ELSE pc[u]]
    /\ hist' = [hist EXCEPT ![t] = Append(@, [fn |-> fn, input |-> input[t], output |-> r])]
    /\ UNCHANGED <<G, input>>

\* Java_org_hyperledger_besu_nativelib_ipamultipoint_LibIpaMultipoint_commit
commit(t) ==
    /\ alive
    /\ pc[t] = "commit"
    /\ LET r == commit_result(input[t], CRS_new) IN
       IF r.kind = "panic"
       THEN \E how \in PanicOutcomes : Abort(t, "commit", [r EXCEPT !.how = how])
       ELSE Complete(t, "commit", r)

\* Java_org_hyperledger_besu_nativelib_ipamultipoint_LibIpaMultipoint_update_commitment
update_commitment(t) ==
    /\ alive
    /\ pc[t] = "update_commitment"
    /\ LET r == update_commitment_result(input[t], CRS_new) IN
       IF r.kind = "panic"
       THEN \E how \in PanicOutcomes :
               Abort(t, "update_commitment", [r EXCEPT !.how = how])
       ELSE Complete(t, "update_commitment", r)

-----------------------------------------------------------------------------
(* Callers.  Three drivers around the same two native functions.           *)

SeqsUpTo(S, n) == UNION {[1..k -> S] : k \in 0..n}

\* 32-byte scalars 0, 1, 2; the 128-byte buffers the test passes as scalars;
\* an empty buffer; a chunk equal to the modulus
ScalarBufs == {<<0>>, <<1>>, <<2>>, <<0, 0, 0, 0>>, <<1, 0, 0, 0>>, <<>>, <<FrModulus>>}

CommitInputs == SeqsUpTo({JBytes(b) : b \in ScalarBufs}, DomainSize + 1)

\* Java ints: in range, just outside, and congruent to 0 or 1 modulo 2^16
IndexValues ==
    (0..(DomainSize - 1)) \cup {-1, DomainSize, -(2 ^ 16) + 1, 2 ^ 16, 2 ^ 16 + 1}

\* the identity; a generator; a point with z # 1; four words off the curve;
\* too short; too long; a coordinate equal to the modulus; all zero
PointBufs ==
    {<<0, 1, 0, 1>>, <<1, 3, 3, 1>>, <<13, 19, 10, 16>>, <<1, 1, 1, 1>>,
     <<0, 1, 0>>, <<0, 1, 0, 1, 5>>, <<FqModulus, 1, 0, 1>>, <<0, 0, 0, 0>>}

UpdateInputs4 ==
    { <<i, JBytes(o), JBytes(n), JBytes(c)>> :
        i \in {JInteger(v) : v \in IndexValues} \cup {JBytes(<<0>>)},
        o \in ScalarBufs, n \in ScalarBufs, c \in PointBufs }

UpdateInputs ==
    UpdateInputs4
      \cup {SubSeq(a, 1, 3) : a \in UpdateInputs4}
      \cup {Append(a, JBytes(<<>>)) : a \in UpdateInputs4}
      \cup {<<>>}

\* one call with arguments of any shape
Call_commit ==
    /\ alive /\ pc[1] = "idle" /\ hist[1] = <<>>
    /\ \E arr \in CommitInputs : Invoke(1, "commit", arr)

Call_update_commitment ==
    /\ alive /\ pc[1] = "idle" /\ hist[1] = <<>>
    /\ \E arr \in UpdateInputs : Invoke(1, "update_commitment", arr)

Next ==
    \/ Call_commit
    \/ Call_update_commitment
    \/ \E t \in Threads : commit(t)
    \/ \E t \in Threads : update_commitment(t)

Spec == Init /\ [][Next]_vars

-----------------------------------------------------------------------------
(* The scenario of tests::commit_and_update_commitment_multiproof_lagrange: *)
(* commit a vector, update the returned commitment at one index, then       *)
(* either commit the updated vector directly or update once more.           *)

PlainScalars == {0, 1, 2}

\* well-formed vectors: DomainSize scalars of 32 bytes each
TestVectors == [1..DomainSize -> {JBytes(<<x>>) : x \in PlainScalars}]

\* the bytes the last completed call handed back
LastBytes == hist[1][Len(hist[1])].output.bytes

TestUpdateInputs ==
    { <<JInteger(i), JBytes(<<o>>), JBytes(<<n>>), JBytes(LastBytes)>> :
        i \in 0..(DomainSize - 1), o \in PlainScalars, n \in PlainScalars }

\* lines 132-136
Test_commit ==
    /\ alive /\ pc[1] = "idle" /\ hist[1] = <<>>
    /\ \E arr \in TestVectors : Invoke(1, "commit", arr)

\* lines 139-164: the commitment argument is the array commit returned
Test_update ==
    /\ alive /\ pc[1] = "idle" /\ Len(hist[1]) = 1
    /\ \E arr \in TestUpdateInputs : Invoke(1, "update_commitment", arr)

\* lines 167-180: commit "the array with already the value" at the index
Test_commit_updated ==
    /\ alive /\ pc[1] = "idle" /\ Len(hist[1]) = 2
    /\ LET v == hist[1][1].input
           u == hist[1][2].input
       IN  Invoke(1, "commit", [v EXCEPT ![u[1].value + 1] = u[3]])

\* a second update, on the commitment the first one returned
Test_update_again ==
    /\ alive /\ pc[1] = "idle" /\ Len(hist[1]) = 2
    /\ \E arr \in TestUpdateInputs : Invoke(1, "update_commitment", arr)

NextTest ==
    \/ Test_commit
    \/ Test_update
    \/ Test_commit_updated
    \/ Test_update_again
    \/ \E t \in Threads : commit(t)
    \/ \E t \in Threads : update_commitment(t)

SpecTest == Init /\ [][NextTest]_vars

-----------------------------------------------------------------------------
(* Independent threads, one call each, some of the calls failing *)

ZeroVector == [k \in 1..DomainSize |-> JBytes(<<0>>)]

ThreadCommitInputs ==
    {ZeroVector, <<JBytes(<<1>>), JBytes(<<2>>)>>, <<JBytes(<<1>>), JBytes(<<>>)>>}

ThreadUpdateInputs ==
    { <<JInteger(1), JBytes(<<0>>), JBytes(<<1>>), JBytes(<<0, 1, 0, 1>>)>>,
      <<JInteger(1), JBytes(<<0>>), JBytes(<<1>>)>>,
      <<JInteger(DomainSize), JBytes(<<0>>), JBytes(<<1>>), JBytes(<<0, 1, 0, 1>>)>>,
      <<JInteger(0), JBytes(<<2>>), JBytes(<<1>>), JBytes(<<0, 1, 0>>)>> }

Thread_commit(t) ==
    /\ alive /\ pc[t] = "idle" /\ hist[t] = <<>>
    /\ \E arr \in ThreadCommitInputs : Invoke(t, "commit", arr)

Thread_update_commitment(t) ==
    /\ alive /\ pc[t] = "idle" /\ hist[t] = <<>>
    /\ \E arr \in ThreadUpdateInputs : Invoke(t, "update_commitment", arr)

NextThreads ==
    \/ \E t \in Threads : Thread_commit(t)
    \/ \E t \in Threads : Thread_update_commitment(t)
    \/ \E t \in Threads : commit(t)
    \/ \E t \in Threads : update_commitment(t)

SpecThreads == Init /\ [][NextThreads]_vars

-----------------------------------------------------------------------------
(* Properties *)

\* completed calls of the single caller of Spec and SpecTest
Calls == {hist[1][k] : k \in DOMAIN hist[1]}

IsCommit(h) == h.fn = "commit"
IsUpdate(h) == h.fn = "update_commitment"

\* an update call of the right shape: four arguments, a Java Integer first
WellShaped(h) == IsUpdate(h) /\ Len(h.input) = 4 /\ h.input[1].cls = "Integer"

InRange(i) == i \in 0..(DomainSize - 1)

\* the call failed with an error reported to the Java caller, no array returned
Rejected(h) == h.output.kind = "exception" /\ h.output.bytes = <<>>

\* a buffer that is one scalar: exactly 32 bytes, below the modulus
GoodScalar(b) == Len(b) = 1 /\ b[1] < FrModulus

\* a buffer that is one point: exactly 128 bytes, four coordinates below the
\* modulus, on the curve
GoodPoint(b) ==
    /\ Len(b) = 4
    /\ \A k \in 1..4 : b[k] < FqModulus
    /\ OnCurve(Point(b[1], b[2], b[3], b[4]))

\* C1: update_commitment(i, v[i], v2, commit(v)) returns the same bytes as
\* commit(v'), v' being v with entry i replaced by v2.
C1_UpdateEqualsCommit ==
    (/\ Len(hist[1]) = 3
     /\ IsCommit(hist[1][1]) /\ IsUpdate(hist[1][2]) /\ IsCommit(hist[1][3])
     /\ hist[1][2].input[2] = hist[1][1].input[hist[1][2].input[1].value + 1])
    => /\ hist[1][2].output.kind = "bytes"
       /\ hist[1][3].output.kind = "bytes"
       /\ hist[1][2].output.bytes = hist[1][3].output.bytes

\* C2: commit with a number of (well-formed) scalars other than DomainSize is
\* rejected with an error and returns no commitment.
C2_WrongLengthRejected ==
    \A h \in Calls :
        (/\ IsCommit(h) /\ Len(h.input) # DomainSize
         /\ \A k \in DOMAIN h.input : GoodScalar(h.input[k].bytes))
            => Rejected(h)

\* C3: update_commitment with an index outside [0, DomainSize), its other
\* arguments well formed, is rejected with an error and returns no commitment.
C3_IndexOutOfRangeRejected ==
    \A h \in Calls :
        (/\ WellShaped(h) /\ ~InRange(h.input[1].value)
         /\ GoodScalar(h.input[2].bytes) /\ GoodScalar(h.input[3].bytes)
         /\ GoodPoint(h.input[4].bytes))
            => Rejected(h)

\* C4: a scalar buffer of the wrong length or not below the modulus, or a
\* commitment buffer that is not 128 bytes decoding to a point on the curve,
\* makes the call fail with an error reported to the caller, with no output.
C4_DecodingFailureReported ==
    \A h \in Calls :
        /\ (IsCommit(h) /\ \E k \in DOMAIN h.input : ~GoodScalar(h.input[k].bytes))
              => Rejected(h)
        /\ (/\ WellShaped(h) /\ InRange(h.input[1].value)
            /\ \/ ~GoodScalar(h.input[2].bytes)
               \/ ~GoodScalar(h.input[3].bytes)
               \/ ~GoodPoint(h.input[4].bytes))
              => Rejected(h)

\* C5: update_commitment with an argument array of length other than 4
\* throws IllegalArgumentException "Invalid input length" and returns null,
\* before any element of the array has been fetched or decoded; the process
\* goes on.
C5_BadLengthThrows ==
    \A h \in Calls :
        (IsUpdate(h) /\ Len(h.input) # 4)
            => /\ h.output =
                    Thrown("java/lang/IllegalArgumentException", "Invalid input length")
               /\ h.output.reads = 0
               /\ alive

\* C5 witness: a five-element call whose second element would not decode
C5_Witness ==
    \E h \in Calls :
        /\ IsUpdate(h) /\ Len(h.input) = 5
        /\ ~Fr_read(h.input[2].bytes).ok
        /\ h.output.kind = "exception"

\* C6: update_commitment(i, x, x, C) returns the bytes of C.
C6_NoOpUpdate ==
    (/\ Len(hist[1]) >= 2
     /\ IsCommit(hist[1][1]) /\ IsUpdate(hist[1][2])
     /\ hist[1][2].input[2] = hist[1][2].input[3])
    => /\ hist[1][2].output.kind = "bytes"
       /\ hist[1][2].output.bytes = hist[1][2].input[4].bytes

\* the second and third call of the scenario made in the other order
SwappedBytes ==
    LET u1 == hist[1][2].input
        u2 == hist[1][3].input
        first == update_commitment_result(<<u2[1], u2[2], u2[3], u1[4]>>, G)
    IN  update_commitment_result(<<u1[1], u1[2], u1[3], JBytes(first.bytes)>>, G).bytes

\* C7: two updates at distinct indices return the same bytes in either order.
C7_UpdatesCommute ==
    (/\ Len(hist[1]) = 3
     /\ IsUpdate(hist[1][2]) /\ IsUpdate(hist[1][3])
     /\ hist[1][2].input[1].value # hist[1][3].input[1].value)
    => /\ hist[1][3].output.kind = "bytes"
       /\ hist[1][3].output.bytes = SwappedBytes

\* DomainSize buffers, each decoding to the scalar 0
IsZeroVector(arr) ==
    /\ Len(arr) = DomainSize
    /\ \A k \in DOMAIN arr : Fr_read(arr[k].bytes) = [ok |-> TRUE, val |-> 0]

\* C8: commit of the all-zero vector returns the encoding (0, 1, 0, 1) of the
\* group identity, on every call and under every generator list.
C8_ZeroVector ==
    \A h \in Calls :
        (IsCommit(h) /\ IsZeroVector(h.input))
            => h.output.kind = "bytes" /\ h.output.bytes = <<0, 1, 0, 1>>

\* C8 witness: the zero vector committed under the second generator list
C8_Witness ==
    /\ G[1] = FromAffine(SubgroupPoints[Len(SubgroupPoints)])
    /\ \E h \in Calls : IsCommit(h) /\ IsZeroVector(h.input) /\ h.output.kind = "bytes"

\* what a call returns when it is the only call made
Alone(fn, arr) ==
    IF fn = "commit" THEN commit_result(arr, G) ELSE update_commitment_result(arr, G)

\* C9: whatever the interleaving, every call ends as it ends when run alone:
\* a finished call with the same result, and a call cut short only if it
\* fails alone as well.
C9_AsWhenRunAlone ==
    \A t \in Threads :
        /\ \A k \in DOMAIN hist[t] :
              [hist[t][k].output EXCEPT !.how = ""] = Alone(hist[t][k].fn, hist[t][k].input)
        /\ pc[t] = "killed" => Alone("commit", input[t]).kind = "panic"
                               \/ Alone("update_commitment", input[t]).kind = "panic"

\* C10: for C returned by commit, an in-range index and old # new,
\* update_commitment returns bytes different from C.
C10_UpdateChanges ==
    (/\ Len(hist[1]) >= 2
     /\ IsCommit(hist[1][1]) /\ hist[1][1].output.kind = "bytes"
     /\ WellShaped(hist[1][2]) /\ InRange(hist[1][2].input[1].value)
     /\ hist[1][2].input[4].bytes = hist[1][1].output.bytes
     /\ Fr_read(hist[1][2].input[2].bytes).val # Fr_read(hist[1][2].input[3].bytes).val)
    => /\ hist[1][2].output.kind = "bytes"
       /\ hist[1][2].output.bytes # hist[1][1].output.bytes

\* C10 witness: such an update has returned, on a commitment with z # 1
C10_Witness ==
    /\ Len(hist[1]) >= 2
    /\ IsCommit(hist[1][1]) /\ IsUpdate(hist[1][2])
    /\ hist[1][2].input[2] # hist[1][2].input[3]
    /\ hist[1][2].input[4].bytes = hist[1][1].output.bytes
    /\ hist[1][1].output.bytes[4] # 1
    /\ hist[1][2].output.kind = "bytes"

-----------------------------------------------------------------------------
(* The returned arrays of the scenario as group elements: where the bytes  *)
(* differ, they are two representatives (x, y, t, z) of the same point.     *)

Decoded(h) == EdwardsProjective_read(h.output.bytes).val

\* update after commit, and commit of the updated vector, give the same point
UpdateEqualsCommitAsPoints ==
    (/\ Len(hist[1]) = 3
     /\ IsCommit(hist[1][1]) /\ IsUpdate(hist[1][2]) /\ IsCommit(hist[1][3])
     /\ hist[1][2].input[2] = hist[1][1].input[hist[1][2].input[1].value + 1])
    => SamePoint(Decoded(hist[1][2]), Decoded(hist[1][3]))

\* an update with old = new gives the point it was given
NoOpUpdateAsPoints ==
    (/\ Len(hist[1]) >= 2
     /\ IsCommit(hist[1][1]) /\ IsUpdate(hist[1][2])
     /\ hist[1][2].input[2] = hist[1][2].input[3])
    => SamePoint(Decoded(hist[1][2]), Decoded(hist[1][1]))

\* two updates give the same point in either order
UpdatesCommuteAsPoints ==
    (/\ Len(hist[1]) = 3
     /\ IsUpdate(hist[1][2]) /\ IsUpdate(hist[1][3]))
    => SamePoint(Decoded(hist[1][3]), EdwardsProjective_read(SwappedBytes).val)

====
